---- MODULE Spec2Model ----
(***************************************************************************)
(* Model of the YouTube transcript backend: the identifier validators,     *)
(* the tiered transcript resolver, the transcript normalisation, and the   *)
(* HTTP handlers of the transcript and completion routes.                  *)
(*                                                                         *)
(* Strings are sequences of one-character strings, so that regular         *)
(* expression matching, prefix tests and joins are computed character by   *)
(* character.  Python's None is the empty sequence <<>> and a present      *)
(* value v is the one-element sequence <<v>>.                              *)
(***************************************************************************)
EXTENDS Integers, Sequences, FiniteSets, TLC

VARIABLES
  \* validators: one input string and what the two functions returned for it
  input_url, parts, extracted, valid, applied,
  \* normalisation: the entries of one fetched track, the shape asked for,
  \* and what the formatting branch of get_transcript returned
  entries, want_timestamps, formatted,
  \* one HTTP request: the configured key, the handler's position, the
  \* request, the response, and the calls made to the external services
  APP_API_KEY, pc, request, response, calls,
  \* the locals of get_transcript_endpoint and get_transcript
  video_id, include_timestamps, transcript_list, transcript, language,
  is_generated, transcript_data, fetched, raised, returned,
  \* the completion proxy: its configured key and what the service answered
  GEMINI_API_KEY, upstream

vvars == <<input_url, parts, extracted, valid, applied>>
nvars == <<entries, want_timestamps, formatted>>
cvars == <<APP_API_KEY, pc, request, response, calls>>
tvars == <<video_id, include_timestamps, transcript_list, transcript, language,
           is_generated, transcript_data, fetched, raised, returned>>
avars == <<GEMINI_API_KEY, upstream>>
vars == <<vvars, nvars, cvars, tvars, avars>>

(***************************************************************************)
(* Characters                                                              *)
(***************************************************************************)
NL == "\n"

Lower == {"a","b","c","d","e","f","g","h","i","j","k","l","m",
          "n","o","p","q","r","s","t","u","v","w","x","y","z"}

Upper == {"A","B","C","D","E","F","G","H","I","J","K","L","M",
          "N","O","P","Q","R","S","T","U","V","W","X","Y","Z"}

Digit == {"0","1","2","3","4","5","6","7","8","9"}

\* the character class [a-zA-Z0-9_-]
IdChars == Lower \cup Upper \cup Digit \cup {"_", "-"}

\* the quantifier {11} of every identifier pattern
IdLen == 11

(***************************************************************************)
(* utils/validators.py                                                     *)
(***************************************************************************)
\* the literal prefixes of the five URL patterns, in the order of the list
patterns ==
  << <<"y","o","u","t","u","b","e",".","c","o","m","/","w","a","t","c","h","?","v","=">>,
     <<"y","o","u","t","u",".","b","e","/">>,
     <<"y","o","u","t","u","b","e",".","c","o","m","/","e","m","b","e","d","/">>,
     <<"y","o","u","t","u","b","e",".","c","o","m","/","v","/">>,
     <<"y","o","u","t","u","b","e",".","c","o","m","/","s","h","o","r","t","s","/">> >>

\* pattern p matches at position i of url: the literal prefix, then exactly
\* IdLen characters of the class; nothing is required of what follows
MatchAt(url, p, i) ==
  /\ i + Len(p) + IdLen - 1 <= Len(url)
  /\ SubSeq(url, i, i + Len(p) - 1) = p
  /\ \A k \in 0..(IdLen - 1) : url[i + Len(p) + k] \in IdChars

\* re.search(pattern, url): the positions at which the pattern matches
MatchPositions(url, p) == {i \in 1..Len(url) : MatchAt(url, p, i)}

\* match.group(1) of the leftmost match
Group1(url, p) ==
  LET i == CHOOSE j \in MatchPositions(url, p) :
             \A j2 \in MatchPositions(url, p) : j <= j2
  IN  SubSeq(url, i + Len(p), i + Len(p) + IdLen - 1)

\* re.match(r'^[a-zA-Z0-9_-]{11}$', s): in Python "$" matches at the end of
\* the string and also just before a newline that ends the string
FullMatch(s) ==
  /\ Len(s) >= IdLen
  /\ \A k \in 1..IdLen : s[k] \in IdChars
  /\ \/ Len(s) = IdLen
     \/ Len(s) = IdLen + 1 /\ s[IdLen + 1] = NL

\* extract_video_id(url): <<>> is None, <<id>> a returned identifier
extract_video_id(url) ==
  LET hits == {n \in 1..Len(patterns) : MatchPositions(url, patterns[n]) # {}}
  IN  IF hits # {}
        THEN LET n == CHOOSE m \in hits : \A m2 \in hits : m <= m2
             IN  <<Group1(url, patterns[n])>>
        ELSE IF FullMatch(url) THEN <<url>> ELSE <<>>

is_valid_video_id(s) == FullMatch(s)

(***************************************************************************)
(* services/transcript_service.py: normalisation of the fetched entries    *)
(***************************************************************************)
\* the characters \\s matches, as far as the inputs contain them
Whitespace == {" ", NL}

RECURSIVE StripFrom_FirstOnly(_, _)
\* a strip that removes the first bracketed piece only, as with count=1
StripFrom_FirstOnly(s, i) ==
  IF i > Len(s) THEN <<>>
  ELSE LET closes == {j \in (i + 1)..Len(s) :
                         /\ s[j] = "]"
                         /\ \A k \in (i + 1)..(j - 1) : s[k] # NL}
       IN  IF s[i] = "[" /\ closes # {}
             THEN SubSeq(s, (CHOOSE j \in closes : \A j2 \in closes : j <= j2) + 1, Len(s))
             ELSE <<s[i]>> \o StripFrom_FirstOnly(s, i + 1)

RECURSIVE StripFrom(_, _)
\* re.sub(r'\[.*?\]', '', s) from position i on: at an open bracket the
\* shortest bracketed piece is removed; "." does not match a newline, so a
\* piece never spans one
StripFrom(s, i) ==
  IF i > Len(s) THEN <<>>
  ELSE LET closes == {j \in (i + 1)..Len(s) :
                         /\ s[j] = "]"
                         /\ \A k \in (i + 1)..(j - 1) : s[k] # NL}
       IN  IF s[i] = "[" /\ closes # {}
             THEN StripFrom(s, (CHOOSE j \in closes : \A j2 \in closes : j <= j2) + 1)
             ELSE <<s[i]>> \o StripFrom(s, i + 1)

StripAnnotations(s) == StripFrom(s, 1)

\* str.strip()
Trim(s) ==
  LET keep == {i \in 1..Len(s) : s[i] \notin Whitespace}
  IN  IF keep = {} THEN <<>>
      ELSE SubSeq(s, CHOOSE i \in keep : \A j \in keep : i <= j,
                     CHOOSE i \in keep : \A j \in keep : i >= j)

RECURSIVE CollapseFrom(_, _)
\* re.sub(r'\s+', ' ', s) from position i on: every maximal run of
\* whitespace becomes one space
CollapseFrom(s, i) ==
  IF i > Len(s) THEN <<>>
  ELSE IF s[i] \in Whitespace
         THEN IF i > 1 /\ s[i - 1] \in Whitespace
                THEN CollapseFrom(s, i + 1)
                ELSE <<" ">> \o CollapseFrom(s, i + 1)
         ELSE <<s[i]>> \o CollapseFrom(s, i + 1)

CollapseWhitespace(s) == CollapseFrom(s, 1)

RECURSIVE JoinFrom(_, _)
\* ' '.join(texts) from element i on
JoinFrom(texts, i) ==
  IF i > Len(texts) THEN <<>>
  ELSE IF i = Len(texts) THEN texts[i]
       ELSE texts[i] \o <<" ">> \o JoinFrom(texts, i + 1)

Join(texts) == JoinFrom(texts, 1)

RECURSIVE SegmentsFrom(_, _)
\* the include_timestamps branch: one segment per entry whose text is not
\* empty after stripping and trimming, with the entry's own timing
SegmentsFrom(data, i) ==
  IF i > Len(data) THEN <<>>
  ELSE LET entry == data[i]
           text == Trim(StripAnnotations(entry.text))
       IN  IF text # <<>>
             THEN <<[text |-> text, start |-> entry.start,
                     duration |-> entry.duration]>>
                    \o SegmentsFrom(data, i + 1)
             ELSE SegmentsFrom(data, i + 1)

segments(data) == SegmentsFrom(data, 1)

\* the plain-text branch: join the original texts, collapse whitespace and
\* trim, then strip the annotations
transcript_text(data) ==
  StripAnnotations(Trim(CollapseWhitespace(
    Join([i \in 1..Len(data) |-> data[i].text]))))

\* what get_transcript returns as its first component
Format(data, include_ts) ==
  IF include_ts THEN segments(data)
                ELSE transcript_text(data)

(***************************************************************************)
(* The parts of the state a specification does not use                     *)
(***************************************************************************)
VIdle ==
  /\ input_url = <<>>
  /\ parts = [junk |-> <<>>, prefix |-> <<>>, run |-> <<>>, tail |-> <<>>]
  /\ extracted = <<>> /\ valid = <<>> /\ applied = {}

NIdle == entries = <<>> /\ want_timestamps = FALSE /\ formatted = <<>>

NoRequest ==
  [endpoint |-> "none", x_api_key |-> <<>>, path |-> <<>>, json |-> FALSE,
   url |-> <<>>, timestamps |-> FALSE,
   prompt |-> [type |-> "missing", val |-> 0],
   max_tokens |-> [type |-> "missing", val |-> 0],
   temperature |-> [type |-> "missing", val |-> 0]]

\* no request has arrived
NoRequestYet ==
  /\ pc = "idle" /\ request = NoRequest /\ response = <<>> /\ calls = <<>>
  /\ video_id = <<>> /\ include_timestamps = FALSE
  /\ transcript_list = <<>> /\ transcript = <<>> /\ language = <<>>
  /\ is_generated = FALSE /\ transcript_data = <<>> /\ fetched = <<>>
  /\ raised = <<>> /\ returned = <<>>
  /\ upstream = <<>>

RIdle == NoRequestYet /\ APP_API_KEY = <<>> /\ GEMINI_API_KEY = <<>>

(***************************************************************************)
(* The caption source (the youtube_transcript_api objects the service      *)
(* calls): tracks, lookups and the failures it signals                     *)
(***************************************************************************)
en == <<"e","n">>
en_US == <<"e","n","-","U","S">>
en_GB == <<"e","n","-","G","B">>
en_AU == <<"e","n","-","A","U">>
fr == <<"f","r">>

\* the language codes the tracks of a video are drawn from: one of the
\* codes the English lookups ask for, one that only starts with "en", and
\* one that is not English
TrackLanguages == {en_GB, en_AU, fr}

\* most tracks of one video
MaxTracks == 2

\* a track as listed; source_language differs from language_code only on
\* the result of translate
Tracks ==
  [language_code : TrackLanguages \cup {en}, is_generated : BOOLEAN,
   is_translatable : BOOLEAN, source_language : TrackLanguages]

ListedTracks == {t \in Tracks : t.source_language = t.language_code}

\* the source keeps one manual and one generated track per language code;
\* the order of enumeration is arbitrary
TrackLists ==
  {tl \in UNION {[1..n -> ListedTracks] : n \in 0..MaxTracks} :
     \A i, j \in 1..Len(tl) :
        (i # j) => \/ tl[i].language_code # tl[j].language_code
                   \/ tl[i].is_generated # tl[j].is_generated}

\* the four conditions the source signals
SourceErrors ==
  {"TranscriptsDisabled", "NoTranscriptFound", "VideoUnavailable", "RequestBlocked"}

\* the track a lookup by provenance and language codes returns: the codes
\* are tried in the order given; <<>> when it raises NoTranscriptFound
FindTranscript(tl, generated, codes) ==
  LET has(n) == \E i \in 1..Len(tl) :
                   /\ tl[i].is_generated = generated
                   /\ tl[i].language_code = codes[n]
      hits == {n \in 1..Len(codes) : has(n)}
  IN  IF hits = {} THEN <<>>
      ELSE LET n == CHOOSE m \in hits : \A m2 \in hits : m <= m2
               i == CHOOSE k \in 1..Len(tl) :
                      /\ tl[k].is_generated = generated
                      /\ tl[k].language_code = codes[n]
           IN  <<tl[i]>>

\* transcript.translate('en')
Translated(t) ==
  [language_code |-> en, is_generated |-> t.is_generated,
   is_translatable |-> FALSE, source_language |-> t.language_code]

(***************************************************************************)
(* utils/auth.py                                                           *)
(***************************************************************************)
\* truth value of an optional string: None and '' are false
Truthy(opt) == opt # <<>> /\ opt[1] # ""

\* require_api_key with only the presence of the header checked
Authorized_AnyKey(req) ==
  \/ ~Truthy(APP_API_KEY)
  \/ Truthy(req.x_api_key)

\* require_api_key lets the request through
Authorized(req) ==
  \/ ~Truthy(APP_API_KEY)
  \/ Truthy(req.x_api_key) /\ req.x_api_key = APP_API_KEY

(***************************************************************************)
(* Responses                                                               *)
(***************************************************************************)
ErrorResponse(status, error) ==
  [status |-> status, success |-> FALSE, error |-> error, shape |-> "error",
   content |-> <<>>, language |-> <<>>, is_generated |-> FALSE, word_count |-> 0]

\* len(result.split())
WordCount(s) ==
  Cardinality({i \in 1..Len(s) :
                 s[i] \notin Whitespace /\ (i = 1 \/ s[i - 1] \in Whitespace)})

\* the except clauses of get_transcript_endpoint, in their order
ExceptStatus(exc) ==
  IF exc = "TranscriptsDisabled" THEN 403
  ELSE IF exc = "NoTranscriptFound" THEN 404
  ELSE IF exc = "VideoUnavailable" THEN 404
  ELSE IF exc = "RequestBlocked" THEN 429
  ELSE 500

ExceptMessage(exc) ==
  IF exc = "TranscriptsDisabled" THEN "Transcripts are disabled for this video"
  ELSE IF exc = "NoTranscriptFound" THEN "No transcript found for this video"
  ELSE IF exc = "VideoUnavailable" THEN "Video is unavailable or does not exist"
  ELSE IF exc = "RequestBlocked" THEN "Request blocked by YouTube"
  ELSE "An error occurred while fetching the transcript"

Call(op, arg, out) == [op |-> op, arg |-> arg, out |-> out]

\* get_transcript raises exc and get_transcript_endpoint answers it
Raise(exc) ==
  /\ raised' = <<exc>>
  /\ response' = <<ErrorResponse(ExceptStatus(exc), ExceptMessage(exc))>>
  /\ pc' = "done"

(***************************************************************************)
(* routes/transcript.py: the handlers up to the first external call        *)
(***************************************************************************)
Unauthorized == ErrorResponse(401, "Unauthorized - invalid or missing API key")

\* get_transcript_endpoint without the check of the identifier
EnterTranscriptEndpoint_Unchecked(req, vid) ==
  IF ~Authorized(req)
    THEN /\ response' = <<Unauthorized>>
         /\ pc' = "done"
         /\ UNCHANGED <<video_id, include_timestamps>>
  ELSE /\ video_id' = vid
       /\ include_timestamps' = req.timestamps
       /\ pc' = "list"
       /\ UNCHANGED response

\* get_transcript_endpoint(vid) behind require_api_key, up to the call of
\* get_transcript
EnterTranscriptEndpoint(req, vid) ==
  IF ~Authorized(req)
    THEN /\ response' = <<Unauthorized>>
         /\ pc' = "done"
         /\ UNCHANGED <<video_id, include_timestamps>>
  ELSE IF ~is_valid_video_id(vid)
    THEN /\ response' = <<ErrorResponse(400, "Invalid video ID format")>>
         /\ pc' = "done"
         /\ UNCHANGED <<video_id, include_timestamps>>
  ELSE /\ video_id' = vid
       /\ include_timestamps' = req.timestamps
       /\ pc' = "list"
       /\ UNCHANGED response

Id11 == <<"d","Q","w","4","w","9","W","g","X","c","Q">>

\* path parameters and body urls the requests carry
PathIds == {Id11, Id11 \o <<NL>>, SubSeq(Id11, 1, 3), <<"!">> \o SubSeq(Id11, 2, 11)}

BodyUrls == {patterns[2] \o Id11, patterns[2] \o Id11 \o <<"x">>,
             patterns[2] \o SubSeq(Id11, 1, 10)}

Headers == {<<>>, <<"secret">>, <<"wrong">>}

\* GET /transcript/<video_id>
GetTranscriptEndpoint ==
  /\ pc = "idle"
  /\ \E vid \in PathIds, ts \in BOOLEAN, key \in Headers :
       LET req == [NoRequest EXCEPT !.endpoint = "GET /transcript/<video_id>",
                                    !.x_api_key = key, !.path = vid,
                                    !.timestamps = ts]
       IN  /\ request' = req
           /\ EnterTranscriptEndpoint(req, vid)
  /\ UNCHANGED <<APP_API_KEY, calls, transcript_list, transcript, language,
                 is_generated, transcript_data, fetched, raised, returned>>
  /\ UNCHANGED <<vvars, nvars, avars>>

\* POST /transcript
GetTranscriptFromUrl ==
  /\ pc = "idle"
  /\ \E body \in {<<>>} \cup {<<u>> : u \in BodyUrls}, ts \in BOOLEAN, key \in Headers :
       LET req == [NoRequest EXCEPT !.endpoint = "POST /transcript",
                                    !.x_api_key = key, !.json = TRUE,
                                    !.url = body, !.timestamps = ts]
       IN  /\ request' = req
           /\ IF ~Authorized(req)
                THEN /\ response' = <<Unauthorized>>
                     /\ pc' = "done"
                     /\ UNCHANGED <<video_id, include_timestamps>>
              ELSE IF body = <<>>
                THEN /\ response' = <<ErrorResponse(400, "Missing url in request body")>>
                     /\ pc' = "done"
                     /\ UNCHANGED <<video_id, include_timestamps>>
              ELSE IF extract_video_id(body[1]) = <<>>
                THEN /\ response' = <<ErrorResponse(400, "Invalid YouTube URL or video ID")>>
                     /\ pc' = "done"
                     /\ UNCHANGED <<video_id, include_timestamps>>
              ELSE EnterTranscriptEndpoint(req, extract_video_id(body[1])[1])
  /\ UNCHANGED <<APP_API_KEY, calls, transcript_list, transcript, language,
                 is_generated, transcript_data, fetched, raised, returned>>
  /\ UNCHANGED <<vvars, nvars, avars>>

\* GET /debug/<video_id>, up to the call of list_available_transcripts
DebugTranscripts ==
  /\ pc = "idle"
  /\ \E vid \in PathIds, key \in Headers :
       LET req == [NoRequest EXCEPT !.endpoint = "GET /debug/<video_id>",
                                    !.x_api_key = key, !.path = vid]
       IN  /\ request' = req
           /\ IF ~Authorized(req)
                THEN /\ response' = <<Unauthorized>>
                     /\ pc' = "done"
                     /\ UNCHANGED video_id
              ELSE IF ~is_valid_video_id(vid)
                THEN /\ response' = <<ErrorResponse(400, "Invalid video ID")>>
                     /\ pc' = "done"
                     /\ UNCHANGED video_id
              ELSE /\ video_id' = vid
                   /\ pc' = "list_available"
                   /\ UNCHANGED response
  /\ UNCHANGED <<APP_API_KEY, calls, include_timestamps, transcript_list,
                 transcript, language, is_generated, transcript_data, fetched,
                 raised, returned>>
  /\ UNCHANGED <<vvars, nvars, avars>>

(***************************************************************************)
(* services/transcript_service.py: get_transcript, one action per call of  *)
(* the caption source                                                      *)
(***************************************************************************)
\* the codes both English lookups are given, in their order
EnglishCodes == <<en, en_US, en_GB>>

\* str.startswith
StartsWith(s, prefix) ==
  Len(s) >= Len(prefix) /\ SubSeq(s, 1, Len(prefix)) = prefix

\* transcript_list = ytt_api.list(video_id), then the three locals
ListTranscripts ==
  /\ pc = "list"
  /\ \/ \E tl \in TrackLists :
          /\ calls' = Append(calls, Call("list", video_id, "ok"))
          /\ transcript_list' = tl
          /\ transcript' = <<>>
          /\ is_generated' = FALSE
          /\ language' = en
          /\ pc' = "find_manually_created"
          /\ UNCHANGED <<raised, response>>
     \/ \E e \in SourceErrors :
          /\ calls' = Append(calls, Call("list", video_id, e))
          /\ Raise(e)
          /\ UNCHANGED <<transcript_list, transcript, is_generated, language>>
  /\ UNCHANGED <<APP_API_KEY, request, video_id, include_timestamps,
                 transcript_data, fetched, returned>>
  /\ UNCHANGED <<vvars, nvars, avars>>

\* the first try left out: the lookup of the manual track always misses
FindManuallyCreated_Skipped ==
  /\ pc = "find_manually_created"
  /\ calls' = Append(calls, Call("find_manually_created_transcript", <<>>,
                                  "NoTranscriptFound"))
  /\ pc' = "find_generated"
  /\ UNCHANGED <<transcript, is_generated, language>>
  /\ UNCHANGED <<APP_API_KEY, request, response, video_id, include_timestamps,
                 transcript_list, transcript_data, fetched, raised, returned>>
  /\ UNCHANGED <<vvars, nvars, avars>>

\* first try: the manually created English transcript
FindManuallyCreated ==
  /\ pc = "find_manually_created"
  /\ LET found == FindTranscript(transcript_list, FALSE, EnglishCodes)
     IN  IF found # <<>>
           THEN /\ calls' = Append(calls, Call("find_manually_created_transcript", <<>>, "ok"))
                /\ transcript' = found
                /\ is_generated' = FALSE
                /\ language' = found[1].language_code
                /\ pc' = "fetch"
           ELSE /\ calls' = Append(calls, Call("find_manually_created_transcript", <<>>,
                                               "NoTranscriptFound"))
                /\ pc' = "find_generated"
                /\ UNCHANGED <<transcript, is_generated, language>>
  /\ UNCHANGED <<APP_API_KEY, request, response, video_id, include_timestamps,
                 transcript_list, transcript_data, fetched, raised, returned>>
  /\ UNCHANGED <<vvars, nvars, avars>>

\* second try: the auto-generated English transcript
FindGenerated ==
  /\ pc = "find_generated"
  /\ LET found == FindTranscript(transcript_list, TRUE, EnglishCodes)
     IN  IF found # <<>>
           THEN /\ calls' = Append(calls, Call("find_generated_transcript", <<>>, "ok"))
                /\ transcript' = found
                /\ is_generated' = TRUE
                /\ language' = found[1].language_code
                /\ pc' = "fetch"
           ELSE /\ calls' = Append(calls, Call("find_generated_transcript", <<>>,
                                               "NoTranscriptFound"))
                /\ pc' = "iterate"
                /\ UNCHANGED <<transcript, is_generated, language>>
  /\ UNCHANGED <<APP_API_KEY, request, response, video_id, include_timestamps,
                 transcript_list, transcript_data, fetched, raised, returned>>
  /\ UNCHANGED <<vvars, nvars, avars>>

\* the third try with the translation attempted on every translatable track
IterateTranscripts_AlwaysTranslates ==
  /\ pc = "iterate"
  /\ \/ /\ transcript_list # <<>>
        /\ LET t == transcript_list[1]
           IN  /\ calls' = Append(calls, Call("iterate", <<>>, "ok"))
               /\ transcript' = <<t>>
               /\ is_generated' = t.is_generated
               /\ language' = t.language_code
               /\ pc' = IF t.is_translatable THEN "translate" ELSE "fetch"
               /\ UNCHANGED <<raised, response>>
     \/ /\ transcript_list = <<>>
        /\ calls' = Append(calls, Call("iterate", <<>>, "empty"))
        /\ Raise("Exception")
        /\ UNCHANGED <<transcript, is_generated, language>>
     \/ \E e \in SourceErrors :
          /\ calls' = Append(calls, Call("iterate", <<>>, e))
          /\ Raise("Exception")
          /\ UNCHANGED <<transcript, is_generated, language>>
  /\ UNCHANGED <<APP_API_KEY, request, video_id, include_timestamps,
                 transcript_list, transcript_data, fetched, returned>>
  /\ UNCHANGED <<vvars, nvars, avars>>

\* third try: the first track the list enumerates; any exception of the
\* enumeration is replaced by a plain Exception, and an enumeration that
\* yields nothing leaves transcript None, which raises a plain Exception
IterateTranscripts ==
  /\ pc = "iterate"
  /\ \/ /\ transcript_list # <<>>
        /\ LET t == transcript_list[1]
           IN  /\ calls' = Append(calls, Call("iterate", <<>>, "ok"))
               /\ transcript' = <<t>>
               /\ is_generated' = t.is_generated
               /\ language' = t.language_code
               /\ pc' = IF ~StartsWith(t.language_code, en) /\ t.is_translatable
                          THEN "translate" ELSE "fetch"
               /\ UNCHANGED <<raised, response>>
     \/ /\ transcript_list = <<>>
        /\ calls' = Append(calls, Call("iterate", <<>>, "empty"))
        /\ Raise("Exception")
        /\ UNCHANGED <<transcript, is_generated, language>>
     \/ \E e \in SourceErrors :
          /\ calls' = Append(calls, Call("iterate", <<>>, e))
          /\ Raise("Exception")
          /\ UNCHANGED <<transcript, is_generated, language>>
  /\ UNCHANGED <<APP_API_KEY, request, video_id, include_timestamps,
                 transcript_list, transcript_data, fetched, returned>>
  /\ UNCHANGED <<vvars, nvars, avars>>

\* translate without the inner try: a failure reaches the outer handler
TranslateTranscript_Propagates ==
  /\ pc = "translate"
  /\ \/ /\ calls' = Append(calls, Call("translate", <<>>, "ok"))
        /\ transcript' = <<Translated(transcript[1])>>
        /\ language' = en
        /\ pc' = "fetch"
        /\ UNCHANGED <<raised, response>>
     \/ /\ calls' = Append(calls, Call("translate", <<>>, "failed"))
        /\ Raise("Exception")
        /\ UNCHANGED <<transcript, language>>
  /\ UNCHANGED <<APP_API_KEY, request, video_id, include_timestamps,
                 transcript_list, is_generated, transcript_data, fetched,
                 returned>>
  /\ UNCHANGED <<vvars, nvars, avars>>

\* translate without the update of language
TranslateTranscript_KeepsLanguage ==
  /\ pc = "translate"
  /\ \/ /\ calls' = Append(calls, Call("translate", <<>>, "ok"))
        /\ transcript' = <<Translated(transcript[1])>>
        /\ UNCHANGED language
     \/ /\ calls' = Append(calls, Call("translate", <<>>, "failed"))
        /\ UNCHANGED <<transcript, language>>
  /\ pc' = "fetch"
  /\ UNCHANGED <<APP_API_KEY, request, response, video_id, include_timestamps,
                 transcript_list, is_generated, transcript_data, fetched,
                 raised, returned>>
  /\ UNCHANGED <<vvars, nvars, avars>>

\* transcript = transcript.translate('en'); any exception keeps the original
TranslateTranscript ==
  /\ pc = "translate"
  /\ \/ /\ calls' = Append(calls, Call("translate", <<>>, "ok"))
        /\ transcript' = <<Translated(transcript[1])>>
        /\ language' = en
     \/ /\ calls' = Append(calls, Call("translate", <<>>, "failed"))
        /\ UNCHANGED <<transcript, language>>
  /\ pc' = "fetch"
  /\ UNCHANGED <<APP_API_KEY, request, response, video_id, include_timestamps,
                 transcript_list, is_generated, transcript_data, fetched,
                 raised, returned>>
  /\ UNCHANGED <<vvars, nvars, avars>>

\* most entries of a track fetched for a request
MaxSourceEntries == 1

\* the texts the entries of a fetched track are drawn from
SourceTexts == {<<"a">>, <<"[","]"," ","[","]">>}

SourceEntryLists ==
  {[i \in 1..Len(texts) |-> [text |-> texts[i], start |-> 10 * i, duration |-> i]] :
     texts \in UNION {[1..n -> SourceTexts] : n \in 0..MaxSourceEntries}}

\* transcript_data = transcript.fetch()
FetchTranscript ==
  /\ pc = "fetch"
  /\ fetched' = Append(fetched, transcript[1])
  /\ \/ \E data \in SourceEntryLists :
          /\ calls' = Append(calls, Call("fetch", <<>>, "ok"))
          /\ transcript_data' = data
          /\ pc' = "format"
          /\ UNCHANGED <<raised, response>>
     \/ \E e \in SourceErrors :
          /\ calls' = Append(calls, Call("fetch", <<>>, e))
          /\ Raise(e)
          /\ UNCHANGED transcript_data
  /\ UNCHANGED <<APP_API_KEY, request, video_id, include_timestamps,
                 transcript_list, transcript, language, is_generated, returned>>
  /\ UNCHANGED <<vvars, nvars, avars>>

\* "raise NoTranscriptFound(video_id)" on an empty result: the exception
\* class is the caption source's and is constructed here with the video id
\* alone; where its constructor also requires the requested codes and the
\* transcript data the statement raises a TypeError instead, which the
\* generic handler answers
EmptyResultRaises == {"NoTranscriptFound", "Exception"}

\* the rest of get_transcript and of get_transcript_endpoint: format the
\* entries, return, and answer; an empty result is answered as an error
ReturnTranscript ==
  /\ pc = "format"
  /\ LET result == Format(transcript_data, include_timestamps)
     IN  /\ returned' = <<[result |-> result, language |-> language,
                           is_generated |-> is_generated]>>
         /\ IF result = <<>>
              THEN \E exc \in EmptyResultRaises :
                     response' = <<ErrorResponse(ExceptStatus(exc),
                                                 ExceptMessage(exc))>>
              ELSE /\ response' =
                        <<[status |-> 200, success |-> TRUE, error |-> "",
                           shape |-> IF include_timestamps THEN "segments"
                                                           ELSE "transcript",
                           content |-> result, language |-> language,
                           is_generated |-> is_generated,
                           word_count |-> IF include_timestamps THEN 0
                                          ELSE WordCount(result)]>>
  /\ pc' = "done"
  /\ UNCHANGED <<APP_API_KEY, request, calls, video_id, include_timestamps,
                 transcript_list, transcript, language, is_generated,
                 transcript_data, fetched, raised>>
  /\ UNCHANGED <<vvars, nvars, avars>>

\* list_available_transcripts(video_id) and the answer of /debug; every
\* exception is answered 500
ListAvailableTranscripts ==
  /\ pc = "list_available"
  /\ \/ \E tl \in TrackLists :
          /\ calls' = Append(calls, Call("list", video_id, "ok"))
          /\ transcript_list' = tl
          /\ response' = <<[status |-> 200, success |-> TRUE, error |-> "",
                            shape |-> "available_transcripts", content |-> tl,
                            language |-> <<>>, is_generated |-> FALSE,
                            word_count |-> 0]>>
          /\ UNCHANGED raised
     \/ \E e \in SourceErrors :
          /\ calls' = Append(calls, Call("list", video_id, e))
          /\ raised' = <<e>>
          /\ response' = <<ErrorResponse(500, e)>>
          /\ UNCHANGED transcript_list
  /\ pc' = "done"
  /\ UNCHANGED <<APP_API_KEY, request, video_id, include_timestamps,
                 transcript, language, is_generated, transcript_data, fetched,
                 returned>>
  /\ UNCHANGED <<vvars, nvars, avars>>

(***************************************************************************)
(* routes/ai.py and services/ai_service.py: the completion proxy           *)
(***************************************************************************)
\* a JSON value of the request body: its type and, for a number, its value
\* (a float in tenths, an int or a bool in units), for a string its length
Json(type, val) == [type |-> type, val |-> val]

Missing == Json("missing", 0)

\* isinstance(v, str), isinstance(v, int), isinstance(v, (int, float)):
\* a bool is an int
IsStr(v) == v.type = "str"
IsInt(v) == v.type \in {"int", "bool"}
IsNumber(v) == v.type \in {"int", "bool", "float"}

\* the value of a number in tenths
Tenths(v) == IF v.type = "float" THEN v.val ELSE 10 * v.val

\* data.get(key, default)
GetOr(v, default) == IF v.type = "missing" THEN default ELSE v

\* the three checks of complete, in their order: "" when the body passes,
\* else the error of the first check that fails
ValidationError(req) ==
  LET prompt == req.prompt
      max_tokens == GetOr(req.max_tokens, Json("int", 2048))
      temperature == GetOr(req.temperature, Json("float", 7))
  IN  IF ~req.json \/ prompt.type = "missing"
        THEN "Missing prompt in request body"
      ELSE IF ~IsStr(prompt) \/ prompt.val = 0
        THEN "Invalid prompt"
      ELSE IF ~IsInt(max_tokens) \/ Tenths(max_tokens) < 10 \/ Tenths(max_tokens) > 81920
        THEN "max_tokens must be between 1 and 8192"
      ELSE IF ~IsNumber(temperature) \/ Tenths(temperature) < 0 \/ Tenths(temperature) > 20
        THEN "temperature must be between 0 and 2"
      ELSE ""

Prompts == {Missing, Json("str", 0), Json("str", 2), Json("int", 5)}

MaxTokensValues ==
  {Missing, Json("int", 0), Json("int", 1), Json("int", 8192), Json("int", 8193),
   Json("bool", 1), Json("bool", 0), Json("float", 15), Json("str", 4)}

Temperatures ==
  {Missing, Json("int", 0), Json("int", 2), Json("int", 3), Json("float", -1),
   Json("float", 7), Json("float", 20), Json("float", 21), Json("bool", 1),
   Json("str", 3)}

\* POST /ai/complete, up to the call of generate_completion
Complete ==
  /\ pc = "idle"
  /\ \E json \in BOOLEAN, key \in Headers :
     \E prompt \in IF json THEN Prompts ELSE {Missing},
        max_tokens \in IF json THEN MaxTokensValues ELSE {Missing},
        temperature \in IF json THEN Temperatures ELSE {Missing} :
       LET req == [NoRequest EXCEPT !.endpoint = "POST /ai/complete",
                                    !.x_api_key = key, !.json = json,
                                    !.prompt = prompt, !.max_tokens = max_tokens,
                                    !.temperature = temperature]
       IN  /\ request' = req
           /\ IF ~Authorized(req)
                THEN /\ response' = <<Unauthorized>>
                     /\ pc' = "done"
              ELSE IF ValidationError(req) # ""
                THEN /\ response' = <<ErrorResponse(400, ValidationError(req))>>
                     /\ pc' = "done"
              ELSE /\ pc' = "generate_completion"
                   /\ UNCHANGED response
  /\ UNCHANGED <<APP_API_KEY, calls>>
  /\ UNCHANGED <<vvars, nvars, tvars, avars>>

\* what the HTTP call to the generation service comes back with
UpstreamStatuses == {200, 400, 429, 500, 503, 504}

ErrorBodies ==
  {"empty", "not_json", "json_without_error", "error_without_message",
   "error_with_message"}

SuccessBodies ==
  {"empty", "not_json", "no_candidates", "candidate_without_parts",
   "part_without_text", "text"}

\* response.json() on a body that is not JSON raises an exception that is a
\* requests RequestException in some versions of the library and a plain
\* ValueError in others
DecodeErrors == {"RequestException", "ValueError"}

UpstreamAnswers ==
  {[kind |-> k, status |-> 0, body |-> "", decode_error |-> ""] :
      k \in {"Timeout", "ConnectionError"}}
  \cup
  {[kind |-> "response", status |-> st, body |-> b, decode_error |-> d] :
      st \in UpstreamStatuses \ {200}, b \in ErrorBodies \ {"not_json"}, d \in {""}}
  \cup
  {[kind |-> "response", status |-> 200, body |-> b, decode_error |-> d] :
      b \in SuccessBodies \ {"empty", "not_json"}, d \in {""}}
  \cup
  {[kind |-> "response", status |-> st, body |-> b, decode_error |-> d] :
      st \in UpstreamStatuses, b \in {"not_json"}, d \in DecodeErrors}
  \cup
  {[kind |-> "response", status |-> 200, body |-> "empty", decode_error |-> d] :
      d \in DecodeErrors}

GeneratedText == <<"o","k">>

Outcome(ok, text, status, message) ==
  [ok |-> ok, text |-> text, status |-> status, message |-> message]

\* generate_completion after its HTTP call: the text it returns, or the
\* AIServiceError (status, message) it raises; status 0 stands for an
\* exception that is not an AIServiceError
generate_completion(answer) ==
  IF answer.kind = "Timeout"
    THEN Outcome(FALSE, <<>>, 504, "AI service timeout")
  ELSE IF answer.kind = "ConnectionError"
    THEN Outcome(FALSE, <<>>, 503, "AI service unavailable")
  ELSE IF answer.body = "not_json" \/ (answer.body = "empty" /\ answer.status = 200)
    THEN IF answer.decode_error = "RequestException"
           THEN Outcome(FALSE, <<>>, 503, "AI service unavailable")
           ELSE Outcome(FALSE, <<>>, 0, "ValueError")
  ELSE IF answer.status # 200
    THEN IF answer.body = "error_with_message"
           THEN Outcome(FALSE, <<>>, answer.status, "AI API error: upstream message")
           ELSE Outcome(FALSE, <<>>, answer.status, "AI API error: Unknown error")
  ELSE IF answer.body = "no_candidates"
    THEN Outcome(FALSE, <<>>, 500, "No response generated")
  ELSE IF answer.body = "candidate_without_parts"
    THEN Outcome(FALSE, <<>>, 500, "Empty response from AI")
  ELSE IF answer.body = "part_without_text"
    THEN Outcome(TRUE, <<>>, 200, "")
  ELSE Outcome(TRUE, GeneratedText, 200, "")

\* text = generate_completion(...) and the answer of complete
GenerateCompletion ==
  /\ pc = "generate_completion"
  /\ IF ~Truthy(GEMINI_API_KEY)
       THEN /\ response' = <<ErrorResponse(503, "AI service not configured")>>
            /\ UNCHANGED <<calls, upstream>>
       ELSE \E answer \in UpstreamAnswers :
              LET outcome == generate_completion(answer)
              IN  /\ calls' = Append(calls, Call("generate", <<>>, answer.kind))
                  /\ upstream' = <<answer>>
                  /\ response' =
                       IF outcome.ok
                         THEN <<[status |-> 200, success |-> TRUE, error |-> "",
                                 shape |-> "text", content |-> outcome.text,
                                 language |-> <<>>, is_generated |-> FALSE,
                                 word_count |-> 0]>>
                       ELSE IF outcome.status = 0
                         THEN <<ErrorResponse(500, "An unexpected error occurred")>>
                       ELSE <<ErrorResponse(outcome.status, outcome.message)>>
  /\ pc' = "done"
  /\ UNCHANGED <<APP_API_KEY, request, GEMINI_API_KEY>>
  /\ UNCHANGED <<vvars, nvars, tvars>>

\* the completion endpoint alone, with and without the key of the
\* generation service
CInit ==
  /\ VIdle /\ NIdle /\ NoRequestYet
  /\ APP_API_KEY \in {<<>>, <<"secret">>}
  /\ GEMINI_API_KEY \in {<<>>, <<"key">>}

CNext == Complete \/ GenerateCompletion

SpecCompletion == CInit /\ [][CNext]_vars

(***************************************************************************)
(* The whole server: one request to any of its protected endpoints         *)
(***************************************************************************)
\* the process starts with or without a configured APP_API_KEY, with the
\* key of the generation service configured, and serves a request
Init ==
  /\ VIdle /\ NIdle /\ NoRequestYet
  /\ APP_API_KEY \in {<<>>, <<"secret">>}
  /\ GEMINI_API_KEY = <<"key">>

Next ==
  \/ GetTranscriptEndpoint
  \/ GetTranscriptFromUrl
  \/ DebugTranscripts
  \/ ListTranscripts
  \/ FindManuallyCreated
  \/ FindGenerated
  \/ IterateTranscripts
  \/ TranslateTranscript
  \/ FetchTranscript
  \/ ReturnTranscript
  \/ ListAvailableTranscripts
  \/ Complete
  \/ GenerateCompletion

Spec == Init /\ [][Next]_vars

(***************************************************************************)
(* Inputs of the validators: junk, then a prefix, then a run of            *)
(* characters, then a tail.                                                *)
(***************************************************************************)
\* longest run of characters that follows a prefix
MaxRun == 12

RunChars == <<"d","Q","w","4","w","9","W","g","X","c","Q","_","-","7">>

\* a run of n characters of the identifier class
RunOf(n) == [i \in 1..n |-> RunChars[((i - 1) % Len(RunChars)) + 1]]

\* the same run with one character outside the class
BadRunOf(n) == [i \in 1..n |-> IF i = 2 THEN "!" ELSE RunOf(n)[i]]

Runs == {RunOf(n) : n \in 0..MaxRun} \cup {BadRunOf(n) : n \in 2..MaxRun}

Junks == { <<>>, <<"w","w","w",".">> }

Prefixes == {patterns[n] : n \in 1..Len(patterns)}
              \cup { <<>>, <<"y","o","u","t","u","-","b","e","/">> }

Tails == { <<>>, <<NL>>, <<"&","t">>, <<"/">> }

Parts == [junk : Junks, prefix : Prefixes, run : Runs, tail : Tails]

Concat(p) == p.junk \o p.prefix \o p.run \o p.tail

VInit ==
  /\ NIdle /\ RIdle
  /\ parts \in Parts
  /\ input_url = Concat(parts)
  /\ extracted = <<>>
  /\ valid = <<>>
  /\ applied = {}

\* video_id = extract_video_id(input_url)
ExtractVideoId ==
  /\ "extract_video_id" \notin applied
  /\ extracted' = extract_video_id(input_url)
  /\ applied' = applied \cup {"extract_video_id"}
  /\ UNCHANGED <<input_url, parts, valid>>
  /\ UNCHANGED <<nvars, cvars, tvars, avars>>

\* is_valid_video_id(input_url), the same string taken as a bare identifier
IsValidVideoId ==
  /\ "is_valid_video_id" \notin applied
  /\ valid' = <<is_valid_video_id(input_url)>>
  /\ applied' = applied \cup {"is_valid_video_id"}
  /\ UNCHANGED <<input_url, parts, extracted>>
  /\ UNCHANGED <<nvars, cvars, tvars, avars>>

VNext == ExtractVideoId \/ IsValidVideoId

SpecValidators == VInit /\ [][VNext]_vars

(***************************************************************************)
(* Claims about the validators                                             *)
(***************************************************************************)
IsCanonical(s) == Len(s) = IdLen /\ \A k \in 1..Len(s) : s[k] \in IdChars

\* C6: whenever extract_video_id returns a value, the value is exactly 11
\* characters, each a letter, digit, underscore or hyphen; and whenever it
\* returns nothing, is_valid_video_id of the same string is false.
C6_ExtractedIsCanonical ==
  /\ ("extract_video_id" \in applied /\ extracted # <<>>)
        => IsCanonical(extracted[1])
  /\ ("extract_video_id" \in applied /\ extracted = <<>> /\ valid # <<>>)
        => valid[1] = FALSE

\* the input has a recognized prefix immediately followed by a maximal run
\* of identifier characters whose length is not 11
RunOfWrongLength ==
  /\ parts.prefix \in {patterns[n] : n \in 1..Len(patterns)}
  /\ \A k \in 1..Len(parts.run) : parts.run[k] \in IdChars
  /\ parts.tail = <<>> \/ parts.tail[1] \notin IdChars
  /\ Len(parts.run) # IdLen

\* C7: when a recognized prefix is followed by a run of identifier
\* characters that is shorter or longer than 11, extract_video_id returns
\* no identifier taken from that run.
C7_ExactLength ==
  ("extract_video_id" \in applied /\ RunOfWrongLength) => extracted = <<>>

(***************************************************************************)
(* Inputs of the normalisation: the entries of one track                   *)
(***************************************************************************)
\* longest entry text
MaxTextLen == 1

\* most entries of one track
MaxEntries == 2

TextChars == {"a", " ", "[", "]"}

\* a caption of two lines whose annotation spans both
TwoLineTexts == {<<"[", NL, "]">>}

Texts == UNION {[1..n -> TextChars] : n \in 0..MaxTextLen} \cup TwoLineTexts

\* entries are ordered by start; the i-th entry starts at 10 * i and
\* lasts i
EntriesOf(texts) ==
  [i \in 1..Len(texts) |-> [text |-> texts[i], start |-> 10 * i, duration |-> i]]

EntryLists == {EntriesOf(texts) : texts \in UNION {[1..n -> Texts] : n \in 0..MaxEntries}}

NInit ==
  /\ VIdle /\ RIdle
  /\ entries \in EntryLists
  /\ want_timestamps \in BOOLEAN
  /\ formatted = <<>>

\* lines 83-100 of get_transcript on the fetched entries
FormatTranscript ==
  /\ formatted = <<>>
  /\ formatted' = <<Format(entries, want_timestamps)>>
  /\ UNCHANGED <<entries, want_timestamps>>
  /\ UNCHANGED <<vvars, cvars, tvars, avars>>

NNext == FormatTranscript

SpecNormalize == NInit /\ [][NNext]_vars

(***************************************************************************)
(* Claims about the normalisation                                          *)
(***************************************************************************)
\* the segment texts joined with single spaces, whitespace collapsed
SegmentsAsText(segs) ==
  Trim(CollapseWhitespace(Join([i \in 1..Len(segs) |-> segs[i].text])))

\* C9: for every sequence of entries the plain-text output equals the
\* segment texts joined with single spaces and whitespace-collapsed.
C9_ShapesAgree ==
  (formatted # <<>>) =>
     IF want_timestamps
       THEN SegmentsAsText(formatted[1]) = transcript_text(entries)
       ELSE formatted[1] = SegmentsAsText(segments(entries))

\* the strings annotation stripping is applied to: every entry text, and
\* the joined, collapsed and trimmed text of the plain shape
Stripped(data) ==
  {data[i].text : i \in 1..Len(data)}
    \cup {Trim(CollapseWhitespace(Join([i \in 1..Len(data) |-> data[i].text])))}

\* C13: annotation stripping is idempotent: on every string it is applied
\* to, stripping the stripped string again changes nothing, so no output of
\* the formatting holds a piece the strip would remove.
C13_StripIdempotent ==
  /\ \A s \in Stripped(entries) :
        StripAnnotations(StripAnnotations(s)) = StripAnnotations(s)
  /\ (formatted # <<>> /\ ~want_timestamps) =>
        StripAnnotations(formatted[1]) = formatted[1]
  /\ (formatted # <<>> /\ want_timestamps) =>
        \A k \in 1..Len(formatted[1]) :
           StripAnnotations(formatted[1][k].text) = formatted[1][k].text

\* the plain text of a two-line annotation followed by a close bracket was
\* stripped to what the shortest match leaves
C13_Witness ==
  /\ formatted # <<>> /\ ~want_timestamps
  /\ Len(entries) = 2
  /\ entries[1].text = <<"[", NL, "]">>
  /\ entries[2].text = <<"]">>
  /\ formatted[1] = <<" ", "]">>

\* s holds a bracketed annotation: an open bracket, any characters, a close
\* bracket
HasAnnotation(s) ==
  \E i, j \in 1..Len(s) : i < j /\ s[i] = "[" /\ s[j] = "]"

\* C15: with include_timestamps the segments are the entries, in their
\* order, whose cleaned text is not empty: each segment has a non-empty
\* text with no bracketed annotation and the start and duration of its
\* entry, and no entry with a non-empty cleaned text is dropped.
C15_SegmentsAreCleanedEntries ==
  (formatted # <<>> /\ want_timestamps) =>
     LET segs == formatted[1]
         cleaned(i) == Trim(StripAnnotations(entries[i].text))
     IN  /\ \A k \in 1..Len(segs) :
               /\ segs[k].text # <<>>
               /\ ~HasAnnotation(segs[k].text)
               /\ \E i \in 1..Len(entries) :
                     /\ segs[k].start = entries[i].start
                     /\ segs[k].duration = entries[i].duration
                     /\ segs[k].text = cleaned(i)
         /\ \A k, l \in 1..Len(segs) : (k < l) => (segs[k].start < segs[l].start)
         /\ \A i \in 1..Len(entries) :
               (cleaned(i) # <<>>) =>
                  \E k \in 1..Len(segs) : segs[k].start = entries[i].start

(***************************************************************************)
(* Claims about the transcript resolver and its routes                     *)
(***************************************************************************)
EnglishCodeSet == {EnglishCodes[n] : n \in 1..Len(EnglishCodes)}

IsManualEnglish(t) ==
  /\ ~t.is_generated
  /\ t.language_code \in EnglishCodeSet
  /\ t.source_language = t.language_code

HasManualEnglish(tl) == \E i \in 1..Len(tl) : IsManualEnglish(tl[i])

\* a resolution (not /debug) whose listing succeeded
Resolving ==
  /\ request.endpoint \in {"GET /transcript/<video_id>", "POST /transcript"}
  /\ calls # <<>>
  /\ calls[1].op = "list" /\ calls[1].out = "ok"

Called(op, out) == \E i \in 1..Len(calls) : calls[i].op = op /\ calls[i].out = out

CalledOp(op) == \E i \in 1..Len(calls) : calls[i].op = op

\* C1: when the listed tracks contain a manual English track, whatever the
\* order of enumeration, the resolver chooses a manual English track: tiers
\* 2 and 3 and translate are never reached, every fetched track is manual
\* English and untranslated, and a result has is_generated = false.
C1_ManualEnglishWins ==
  (Resolving /\ HasManualEnglish(transcript_list)) =>
     /\ ~CalledOp("find_generated_transcript")
     /\ ~CalledOp("iterate")
     /\ ~CalledOp("translate")
     /\ \A i \in 1..Len(fetched) : IsManualEnglish(fetched[i])
     /\ (pc \in {"fetch", "format"}) =>
           (transcript # <<>> /\ IsManualEnglish(transcript[1]))
     /\ (returned # <<>>) => (returned[1].is_generated = FALSE)
     /\ (response # <<>> /\ response[1].success) => (response[1].is_generated = FALSE)

\* a result was returned for a list that enumerates a generated track
\* before its manual English track
C1_Witness ==
  /\ Resolving
  /\ returned # <<>>
  /\ Len(transcript_list) = 2
  /\ transcript_list[1].is_generated
  /\ transcript_list[1].language_code = en_GB
  /\ IsManualEnglish(transcript_list[2])

\* C2: when tier 3 reaches the translate call and it fails, the resolution
\* goes on with the original first track: nothing is raised by the
\* failure, that track is the one fetched, and a result carries the
\* track's own language code and is_generated flag.
C2_TranslationFailureKeepsOriginal ==
  (Resolving /\ Called("translate", "failed")) =>
     LET t == transcript_list[1]
     IN  /\ Called("find_manually_created_transcript", "NoTranscriptFound")
         /\ Called("find_generated_transcript", "NoTranscriptFound")
         /\ ~StartsWith(t.language_code, en) /\ t.is_translatable
         /\ transcript = <<t>>
         /\ language = t.language_code
         /\ is_generated = t.is_generated
         /\ pc \in {"fetch", "format", "done"}
         /\ (pc # "fetch") => (fetched = <<t>>)
         /\ (raised # <<>>) => (calls[Len(calls)].op = "fetch")
         /\ (pc = "done" /\ Called("fetch", "ok")) => (returned # <<>>)
         /\ (returned # <<>>) =>
               /\ returned[1].language = t.language_code
               /\ returned[1].is_generated = t.is_generated

\* a generated French track whose translation failed was fetched and
\* answered 200
C2_Witness ==
  /\ Resolving
  /\ Called("translate", "failed")
  /\ transcript_list[1].is_generated
  /\ returned # <<>>
  /\ response # <<>> /\ response[1].status = 200
  /\ response[1].language = fr

\* C3: in every returned result the language is "en" if translation
\* occurred, the matched track's code if tier 1 or 2 matched, and else the
\* first track's own code; is_generated is the flag of the track chosen
\* from the source, also after translation.
C3_EffectiveLanguageAndProvenance ==
  (Resolving /\ returned # <<>>) =>
     LET r == returned[1]
         f == fetched[Len(fetched)]
     IN  /\ Called("translate", "ok") =>
               /\ r.language = en
               /\ f = Translated(transcript_list[1])
               /\ r.is_generated = transcript_list[1].is_generated
         /\ Called("find_manually_created_transcript", "ok") =>
               /\ \E i \in 1..Len(transcript_list) : transcript_list[i] = f
               /\ IsManualEnglish(f)
               /\ r.language = f.language_code
               /\ r.is_generated = f.is_generated
         /\ Called("find_generated_transcript", "ok") =>
               /\ \E i \in 1..Len(transcript_list) : transcript_list[i] = f
               /\ f.is_generated /\ f.language_code \in EnglishCodeSet
               /\ r.language = f.language_code
               /\ r.is_generated = f.is_generated
         /\ (Called("iterate", "ok") /\ ~Called("translate", "ok")) =>
               /\ f = transcript_list[1]
               /\ r.language = f.language_code
               /\ r.is_generated = f.is_generated
         /\ \/ Called("find_manually_created_transcript", "ok")
            \/ Called("find_generated_transcript", "ok")
            \/ Called("iterate", "ok")

\* a generated French track was translated and returned
C3_Witness ==
  /\ Resolving
  /\ returned # <<>>
  /\ Called("translate", "ok")
  /\ transcript_list[1].language_code = fr
  /\ returned[1].is_generated
  /\ returned[1].language = en

\* C4: when listing succeeds and the tier-3 enumeration yields no track,
\* the caller is answered NotFound (404), as for NoTranscriptFound.
C4_EmptyEnumerationIsNotFound ==
  (Resolving /\ Called("iterate", "empty") /\ pc = "done") =>
     response[1].status = 404

\* the status the caller is to see for each condition the source signals
SignalStatus(e) ==
  IF e = "TranscriptsDisabled" THEN 403
  ELSE IF e = "RequestBlocked" THEN 429
  ELSE 404

\* C5: when the source signals one of its four conditions at listing, at
\* the tier-3 enumeration or at the fetch, the caller receives that same
\* condition: it is the exception raised and the status answered.
C5_SourceFailuresAsIs ==
  \A i \in 1..Len(calls) :
     ( /\ request.endpoint \in {"GET /transcript/<video_id>", "POST /transcript"}
       /\ calls[i].op \in {"list", "iterate", "fetch"}
       /\ calls[i].out \in SourceErrors ) =>
          /\ pc = "done"
          /\ raised = <<calls[i].out>>
          /\ response[1].status = SignalStatus(calls[i].out)
          /\ ~response[1].success

\* the request's identifier input fails the check: the path parameter is
\* not a valid identifier, or no identifier is extracted from the body url
InputFailsCheck ==
  \/ /\ request.endpoint \in {"GET /transcript/<video_id>", "GET /debug/<video_id>"}
     /\ ~is_valid_video_id(request.path)
  \/ /\ request.endpoint = "POST /transcript"
     /\ request.url # <<>>
     /\ extract_video_id(request.url[1]) = <<>>

\* the caption source is reached only through list, with an identifier
\* that passes is_valid_video_id
SourceCalledWithValidId ==
  /\ (\E i \in 1..Len(calls) : calls[i].op # "generate") => (calls[1].op = "list")
  /\ \A i \in 1..Len(calls) :
        (calls[i].op = "list") =>
           (calls[i].arg = video_id /\ is_valid_video_id(calls[i].arg))

CallsOf(op) == {i \in 1..Len(calls) : calls[i].op = op}

\* C14: translate is called at most once, only after both English lookups
\* reported not-found, only on the first enumerated track, and only when
\* that track's code does not start with "en" and it is translatable; only
\* the first enumerated track or its translation is ever chosen or
\* fetched, also after a failed translation, and a resolution that
\* returns fetched exactly one track.
C14_OneTrackOneTranslation ==
  Resolving =>
     /\ Cardinality(CallsOf("translate")) <= 1
     /\ Cardinality(CallsOf("iterate")) <= 1
     /\ Cardinality(CallsOf("fetch")) <= 1
     /\ \A i \in CallsOf("translate") :
           /\ i = 5
           /\ calls[2] = Call("find_manually_created_transcript", <<>>, "NoTranscriptFound")
           /\ calls[3] = Call("find_generated_transcript", <<>>, "NoTranscriptFound")
           /\ calls[4] = Call("iterate", <<>>, "ok")
           /\ ~StartsWith(transcript_list[1].language_code, en)
           /\ transcript_list[1].is_translatable
     /\ Called("iterate", "ok") =>
           LET first == transcript_list[1]
               chosen == IF Called("translate", "ok") THEN Translated(first) ELSE first
           IN  /\ (pc # "translate") => (transcript = <<chosen>>)
               /\ \A k \in 1..Len(fetched) : fetched[k] = chosen
     /\ Len(fetched) = Cardinality(CallsOf("fetch"))
     /\ (returned # <<>>) => (Len(fetched) = 1)

\* of two listed tracks the first, French and translatable, failed to
\* translate and was the one track fetched and returned
C14_Witness ==
  /\ Resolving
  /\ Len(transcript_list) = 2
  /\ transcript_list[1].language_code = fr
  /\ transcript_list[2].language_code = en_AU
  /\ transcript_list[2].is_translatable
  /\ Called("translate", "failed")
  /\ returned # <<>>
  /\ fetched = <<transcript_list[1]>>

\* the header of the request is missing or differs from the configured key
HeaderRejected ==
  request.x_api_key = <<>> \/ request.x_api_key # APP_API_KEY

\* C16: with APP_API_KEY configured, a request to any protected endpoint
\* whose X-API-Key header is missing or differs from the key is answered
\* 401 and reaches neither the input validation, the caption source nor
\* the generation service; with APP_API_KEY not configured no request is
\* answered 401, whatever its header.
C16_KeyCheckedFirst ==
  (request.endpoint # "none") =>
     /\ (Truthy(APP_API_KEY) /\ HeaderRejected) =>
           /\ pc = "done"
           /\ response = <<Unauthorized>>
           /\ calls = <<>>
           /\ upstream = <<>>
           /\ video_id = <<>>
     /\ (Truthy(APP_API_KEY) /\ ~HeaderRejected) =>
           (response # <<>> => response[1].status # 401)
     /\ (~Truthy(APP_API_KEY)) =>
           (response # <<>> => response[1].status # 401)

\* a completion request with a wrong key and a body that fails validation
\* was answered 401
C16_Witness ==
  /\ request.endpoint = "POST /ai/complete"
  /\ Truthy(APP_API_KEY)
  /\ request.x_api_key = <<"wrong">>
  /\ ValidationError(request) # ""
  /\ pc = "done"
  /\ response = <<Unauthorized>>

\* every entry of the track is bracketed annotations and whitespace only
OnlyAnnotations(data) ==
  \A i \in 1..Len(data) : Trim(StripAnnotations(data[i].text)) = <<>>

\* C17: a success response of a resolution never carries empty content: in
\* the plain shape word_count is at least 1, in the segment shape there is
\* at least one segment; and a fetched track whose entries are only
\* annotations and whitespace is answered with a failure in both shapes.
C17_SuccessHasContent ==
  (Resolving /\ pc = "done") =>
     /\ response[1].success =>
           IF response[1].shape = "transcript"
             THEN response[1].word_count >= 1
             ELSE Len(response[1].content) >= 1
     /\ (Called("fetch", "ok") /\ OnlyAnnotations(transcript_data)) =>
           ~response[1].success

(***************************************************************************)
(* Claims about the completion proxy                                       *)
(***************************************************************************)
\* the body violates the contract: no usable prompt, max_tokens given and
\* not an integer in [1, 8192], or temperature given and not a number in
\* [0, 2]; a JSON boolean is neither an integer nor a number
OutOfContract(req) ==
  \/ ~req.json
  \/ req.prompt.type # "str"
  \/ req.prompt.val = 0
  \/ /\ req.max_tokens.type # "missing"
     /\ ~(req.max_tokens.type = "int" /\ req.max_tokens.val \in 1..8192)
  \/ /\ req.temperature.type # "missing"
     /\ ~(/\ req.temperature.type \in {"int", "float"}
          /\ Tenths(req.temperature) >= 0
          /\ Tenths(req.temperature) <= 20)

\* C10: a completion request (that passed the API-key check) whose body is
\* out of contract is rejected 400 and never reaches the generation
\* service; a body inside the contract is not rejected by validation.
C10_ValidationBeforeGeneration ==
  (request.endpoint = "POST /ai/complete" /\ Authorized(request)) =>
     IF OutOfContract(request)
       THEN /\ pc = "done"
            /\ response[1].status = 400
            /\ ~CalledOp("generate")
       ELSE /\ pc \in {"generate_completion", "done"}
            /\ (pc = "done" /\ ~CalledOp("generate")) => (response[1].status = 503)

\* the generation service answered with an HTTP response of that status
Answered(status) ==
  /\ upstream # <<>>
  /\ upstream[1].kind = "response"
  /\ upstream[1].status = status

\* C11: when the generation service answers 200 with no candidates, with a
\* first candidate without content parts, or with a first part without
\* text, the completion fails with status 500; a successful completion
\* never carries the empty string.
C11_NoEmptySuccess ==
  /\ ( /\ Answered(200)
       /\ upstream[1].body \in {"no_candidates", "candidate_without_parts",
                                "part_without_text"} ) =>
        (~response[1].success /\ response[1].status = 500)
  /\ ( /\ request.endpoint = "POST /ai/complete"
       /\ response # <<>>
       /\ response[1].success ) =>
        (response[1].content # <<>>)

\* C12: when the generation service answers with a status other than 200,
\* whatever the body, the completion fails with that same status and with
\* the upstream's error message, or "Unknown error" when the body has
\* none.
C12_UpstreamStatusSurfaced ==
  (upstream # <<>> /\ upstream[1].kind = "response" /\ upstream[1].status # 200) =>
     /\ ~response[1].success
     /\ response[1].status = upstream[1].status
     /\ response[1].error = IF upstream[1].body = "error_with_message"
                               THEN "AI API error: upstream message"
                               ELSE "AI API error: Unknown error"

====
